---- MODULE Spec2Model ----
(***************************************************************************)
(* Model of src/main.py: a global hotkey (pynput) opens a full-screen      *)
(* ScreenshotOverlay (PyQt5); a left-button drag on the overlay emits the  *)
(* selected rectangle; MainApp.handle_selection grabs the screen, crops    *)
(* it, runs OCR on it and writes the trimmed text to the clipboard.        *)
(*                                                                         *)
(* Two threads run: the GUI thread inside app.exec_() (mouse handlers,     *)
(* the selectionComplete slot, close) and the pynput listener thread       *)
(* (on_press / on_release, and through hotkey.press -> on_activate also    *)
(* MainApp.start_overlay).  Library calls are modelled by what the         *)
(* library does: QRect / QPixmap.copy (Qt 5), HotKey and Listener          *)
(* (pynput), str.strip (Python).                                           *)
(***************************************************************************)
EXTENDS Integers, Sequences, FiniteSets, TLC

\* ------------------------------------------------------------ bounds
\* Mouse coordinates range over 0..MaxCoord on both axes.
MaxCoord == 2
\* Size of the pixmap returned by screen.grabWindow(0).
ScreenW == 2
ScreenH == 2
\* Longest string the OCR engine returns.
MaxTextLen == 2
\* Number of overlays one run of the model may create.
MaxOverlays == 2

\* ------------------------------------------------------------ data
None == <<>>

\* self.overlay = None: no overlay, where an overlay id would stand
NoOverlay == 0

Coords == 0..MaxCoord
Points == Coords \X Coords
Buttons == {"left", "right"}

\* QtCore.Qt.LeftButton, tested by mousePressEvent
PressIsLeftButton(b) == b = "left"

\* the button test of mouseReleaseEvent, written without the comparison
AnyButtonReleases(b) == b \in Buttons

\* QtCore.Qt.LeftButton, tested by mouseReleaseEvent
ReleaseIsLeftButton(b) == b = "left"

\* A QRect is <<x1, y1, x2, y2>>, the corners Qt stores.
\* QRect(topLeft, bottomRight)
RectFromPoints(p, q) == <<p[1], p[2], q[1], q[2]>>

\* QRect.width(), QRect.height(), QRect.isEmpty()
RectWidth(r) == r[3] - r[1] + 1
RectHeight(r) == r[4] - r[2] + 1
RectIsEmpty(r) == r[1] > r[3] \/ r[2] > r[4]

\* a normalized() that returns the rectangle as it is
NormalizedNoSwap(r) == r

\* QRect.normalized(): swaps the corners of an axis when x2 < x1 - 1
\* (y2 < y1 - 1); x2 = x1 - 1, a width of zero, is left alone.
Normalized(r) ==
    LET xs == IF r[3] < r[1] - 1 THEN <<r[3], r[1]>> ELSE <<r[1], r[3]>>
        ys == IF r[4] < r[2] - 1 THEN <<r[4], r[2]>> ELSE <<r[2], r[4]>>
    IN  <<xs[1], ys[1], xs[2], ys[2]>>

\* QRect.intersected(), for two normalized rectangles
Intersected(a, b) ==
    LET Max(x, y) == IF x > y THEN x ELSE y
        Min(x, y) == IF x < y THEN x ELSE y
    IN  IF RectIsEmpty(a) \/ RectIsEmpty(b)
        THEN <<0, 0, -1, -1>>
        ELSE <<Max(a[1], b[1]), Max(a[2], b[2]), Min(a[3], b[3]), Min(a[4], b[4])>>

\* screen.grabWindow(0): the size <<w, h>> of the desktop pixmap
GrabWindow == <<ScreenW, ScreenH>>

\* QPixmap.copy(rect) on a pixmap of size pix, as the sizes <<w, h>> the
\* copy can have: an empty rect copies the whole pixmap, any other rect is
\* clipped to the pixmap.  For a rect that lies outside the pixmap the
\* platform pixmap decides: the null pixmap, <<0, 0>>, or the whole pixmap.
PixmapCopy(pix, rect) ==
    LET whole == <<0, 0, pix[1] - 1, pix[2] - 1>>
        r == IF RectIsEmpty(rect) THEN whole ELSE Intersected(whole, rect)
    IN  IF RectIsEmpty(r)
        THEN {<<0, 0>>, <<pix[1], pix[2]>>}
        ELSE {<<RectWidth(r), RectHeight(r)>>}

\* selected_pixmap.save(buffer, "PNG") writes nothing for a null pixmap,
\* and Image.open raises on an empty buffer.
ConvertRaises(img) == img = <<0, 0>>

\* ------------------------------------------------------------ text
Chars == {" ", "a"}
IsSpace(c) == c = " "

Texts == UNION {[1..n -> Chars] : n \in 0..MaxTextLen}

RECURSIVE LStrip(_)
\* str.lstrip(): drop whitespace from the left end
LStrip(t) == IF t # <<>> /\ IsSpace(Head(t)) THEN LStrip(Tail(t)) ELSE t

RECURSIVE RStrip(_)
\* str.rstrip(): drop whitespace from the right end
RStrip(t) ==
    IF t # <<>> /\ IsSpace(t[Len(t)]) THEN RStrip(SubSeq(t, 1, Len(t) - 1)) ELSE t

\* a strip() that trims the left end only
StripLeftOnly(t) == LStrip(t)

\* text.strip()
Strip(t) == RStrip(LStrip(t))

\* ------------------------------------------------------------ keyboard
\* Physical keys the user can hold: the three of the hotkey and one other.
PhysKeys == {"shift", "alt", "s", "x"}

\* keyboard.HotKey.parse("<shift>+<alt>+s"): Key.shift, Key.alt, KeyCode 's'
HotKeyKeys == {"shift", "alt", "s"}

\* The key object keyboard.Listener hands to on_press / on_release: a
\* modifier is itself, a character key is the character it types under the
\* modifiers held, so the s key with shift down is 'S'.  on_press and
\* on_release pass it on unchanged (no Listener.canonical).
ListenerKey(k, down) ==
    IF k = "s" THEN (IF "shift" \in down THEN "S" ELSE "s") ELSE k

\* for_canonical(f): the wrapper calls f with its arguments as they are
for_canonical(key) == key

\* HotKey.press(key): the new _state, and whether on_activate is called
HotKeyPress(state, key) ==
    IF key \in HotKeyKeys /\ key \notin state
    THEN [state |-> state \cup {key}, activate |-> (state \cup {key}) = HotKeyKeys]
    ELSE [state |-> state, activate |-> FALSE]

\* HotKey.release(key): the new _state
HotKeyRelease(state, key) == state \ {key}

\* The keys of the combination, as physical keys.
Combo == {"shift", "alt", "s"}

VARIABLES
    held,         \* physical keys down
    hotkeyState,  \* HotKey._state
    lpc,          \* listener thread: "idle" or its place in start_overlay
    appOverlay,   \* MainApp.overlay: NoOverlay or an overlay id
    ov,           \* the overlays created so far, by id
    nextId,       \* id of the next overlay
    gpc,          \* GUI thread: "idle" or its place in the release handler
    cur,          \* the overlay whose mouseReleaseEvent is running
    rect,         \* the rectangle emitted by selectionComplete
    img,          \* size of selected_pixmap
    text,         \* the OCR result
    clipboard,    \* system clipboard
    printed,      \* last line handle_selection wrote to standard output
    lastRun,      \* outcome of the last handle_selection call
    emitCount,    \* selectionComplete emissions per overlay
    closeCount,   \* close() calls per overlay
    drags,        \* left press followed by left release, per overlay
    loop          \* app.exec_(): "running", "quitting", "exited", "aborted"

kbdVars == <<held, hotkeyState>>
ovVars == <<appOverlay, ov, nextId>>
runVars == <<cur, rect, img, text, clipboard, printed, lastRun>>
countVars == <<emitCount, closeCount, drags>>
vars == <<held, hotkeyState, lpc, appOverlay, ov, nextId, gpc, cur,
          rect, img, text, clipboard, printed, lastRun, emitCount,
          closeCount, drags, loop>>

Ids == 1..MaxOverlays

\* ScreenshotOverlay.__init__
NewOverlay ==
    [visible |-> FALSE, start_point |-> None, end_point |-> None,
     rubberVisible |-> FALSE]

\* the process is alive: the listener is a daemon thread of it
Alive == loop \in {"running", "quitting"}

\* what the clipboard holds when the program starts
OldClipboard == <<"old">>

Init ==
    /\ held = {}
    /\ hotkeyState = {}
    /\ lpc = "idle"
    /\ appOverlay = NoOverlay
    /\ ov = <<>>
    /\ nextId = 1
    /\ gpc = "idle"
    /\ cur = NoOverlay
    /\ rect = None
    /\ img = None
    /\ text = None
    /\ clipboard = OldClipboard
    /\ printed = None
    /\ lastRun = [status |-> "none", id |-> NoOverlay, before |-> OldClipboard,
                  shownAtGrab |-> FALSE, padded |-> FALSE]
    /\ emitCount = [o \in Ids |-> 0]
    /\ closeCount = [o \in Ids |-> 0]
    /\ drags = [o \in Ids |-> 0]
    /\ loop = "running"

\* The process has ended: its threads and objects are gone.  The clipboard
\* and what was printed stay, and so do the counts kept of what it did.
Gone ==
    /\ held' = {}
    /\ hotkeyState' = {}
    /\ appOverlay' = NoOverlay
    /\ ov' = <<>>
    /\ gpc' = "idle"
    /\ cur' = NoOverlay
    /\ rect' = None
    /\ img' = None
    /\ text' = None
    /\ UNCHANGED <<lpc, nextId>>

\* ------------------------------------------------------------ listener thread
\* on_press(key): hotkey.press(key); an activation enters on_activate
OnPress(k) ==
    /\ Alive
    /\ lpc = "idle"
    /\ LET r == HotKeyPress(hotkeyState, ListenerKey(k, held))
       IN  /\ hotkeyState' = r.state
           /\ lpc' = IF r.activate THEN "check" ELSE "idle"
    /\ held' = held \cup {k}
    /\ UNCHANGED <<ovVars, gpc, runVars, countVars, loop>>

\* on_release(key): hotkey.release(key)
OnRelease(k) ==
    /\ Alive
    /\ lpc = "idle"
    /\ k \in held
    /\ hotkeyState' = HotKeyRelease(hotkeyState, ListenerKey(k, held \ {k}))
    /\ held' = held \ {k}
    /\ UNCHANGED <<lpc, ovVars, gpc, runVars, countVars, loop>>

\* a start_overlay whose test never finds the overlay visible
NeverVisible == FALSE

\* start_overlay: self.overlay and self.overlay.isVisible()
AlreadyVisible == appOverlay # NoOverlay /\ ov[appOverlay].visible

\* start_overlay, the test: return when the overlay is visible
StartOverlayCheck ==
    /\ Alive
    /\ lpc = "check"
    /\ lpc' = IF AlreadyVisible THEN "idle" ELSE "create"
    /\ UNCHANGED <<kbdVars, ovVars, gpc, runVars, countVars, loop>>

\* start_overlay: self.overlay = ScreenshotOverlay(), and the connect.
\* The widget self.overlay held loses its last reference and is destroyed.
StartOverlayCreate ==
    /\ Alive
    /\ lpc = "create"
    /\ nextId <= MaxOverlays
    /\ ov' = Append([i \in DOMAIN ov |-> IF i = appOverlay THEN NewOverlay ELSE ov[i]],
                    NewOverlay)
    /\ appOverlay' = nextId
    /\ nextId' = nextId + 1
    /\ lpc' = "show"
    /\ UNCHANGED <<kbdVars, gpc, runVars, countVars, loop>>

\* start_overlay runs on the listener thread: Qt leaves a widget built
\* outside the GUI thread undefined, and a build may abort on it.
StartOverlayAbort ==
    /\ Alive
    /\ lpc = "create"
    /\ Gone
    /\ loop' = "aborted"
    /\ UNCHANGED <<clipboard, printed, lastRun, countVars>>

\* start_overlay: self.overlay.show()
StartOverlayShow ==
    /\ Alive
    /\ lpc = "show"
    /\ ov' = [ov EXCEPT ![appOverlay].visible = TRUE]
    /\ lpc' = "idle"
    /\ UNCHANGED <<kbdVars, appOverlay, nextId, gpc, runVars, countVars, loop>>

\* ------------------------------------------------------------ GUI thread
\* Qt delivers mouse events to a shown widget, between two handlers.  A
\* Quit event is posted by the close of the last window, before a later
\* overlay can be shown, so the event loop takes it ahead of any mouse
\* event of that overlay.
Delivers(o) ==
    /\ loop = "running"
    /\ gpc = "idle"
    /\ o \in DOMAIN ov
    /\ ov[o].visible

\* mousePressEvent
MousePress(o, b, p) ==
    /\ Delivers(o)
    /\ ov' = IF PressIsLeftButton(b)
             THEN [ov EXCEPT ![o].start_point = p, ![o].rubberVisible = TRUE]
             ELSE ov
    /\ UNCHANGED <<kbdVars, lpc, appOverlay, nextId, gpc, runVars, countVars, loop>>

\* mouseMoveEvent: with a start_point it gives the rubber band the
\* geometry QRect(start_point, pos).normalized(); the geometry is drawn
\* and read by nothing, and is not part of the state here.
MouseMove(o, p) ==
    /\ Delivers(o)
    /\ UNCHANGED vars

\* a mouseReleaseEvent that closes before it emits
CloseThenEmit == <<"close", "emit">>

\* mouseReleaseEvent: the order of its last two statements
ReleaseOrder == <<"emit", "close">>

\* QWidget.close() with quitOnLastWindowClosed left at its default: when no
\* window stays shown, the application posts itself a Quit event.
AfterClose(o, lp) ==
    IF lp = "running" /\ \A w \in DOMAIN ov : w # o => ~ov[w].visible
    THEN "quitting"
    ELSE lp

\* mouseReleaseEvent of another button: nothing happens
MouseReleaseOther(o, b, p) ==
    /\ Delivers(o)
    /\ ~ReleaseIsLeftButton(b)
    /\ UNCHANGED vars

\* mouseReleaseEvent, left button, after a left press: end_point, hide the
\* rubber band, emit selectionComplete(rect); the slot was connected when
\* the overlay was made and the connection is direct, so handle_selection
\* starts inside the emit.
MouseRelease(o, b, p) ==
    /\ Delivers(o)
    /\ ReleaseIsLeftButton(b)
    /\ ov[o].start_point # None
    /\ LET early == ReleaseOrder[1] = "close"
       IN  /\ ov' = [ov EXCEPT ![o].end_point = p,
                               ![o].rubberVisible = FALSE,
                               ![o].visible = ~early]
           /\ closeCount' = IF early THEN [closeCount EXCEPT ![o] = @ + 1]
                            ELSE closeCount
           /\ loop' = IF early THEN AfterClose(o, loop) ELSE loop
    /\ rect' = Normalized(RectFromPoints(ov[o].start_point, p))
    /\ emitCount' = [emitCount EXCEPT ![o] = @ + 1]
    /\ drags' = IF b = "left" THEN [drags EXCEPT ![o] = @ + 1] ELSE drags
    /\ cur' = o
    /\ gpc' = "grab"
    /\ lastRun' = [status |-> "running", id |-> o, before |-> clipboard,
                   shownAtGrab |-> FALSE, padded |-> FALSE]
    /\ UNCHANGED <<kbdVars, lpc, appOverlay, nextId, img, text, clipboard, printed>>

\* mouseReleaseEvent, left button, with start_point still None:
\* QRect(None, end_point) raises TypeError, nothing is emitted or closed.
\* PyQt5 from 5.5 on aborts on an exception a handler lets out, an older
\* one prints the traceback and goes on.
MouseReleaseNoPress(o, b, p) ==
    /\ Delivers(o)
    /\ ReleaseIsLeftButton(b)
    /\ ov[o].start_point = None
    /\ \/ /\ ov' = [ov EXCEPT ![o].end_point = p, ![o].rubberVisible = FALSE]
          /\ UNCHANGED <<kbdVars, lpc, appOverlay, nextId, gpc, cur, rect, img,
                         text, loop>>
       \/ /\ Gone
          /\ loop' = "aborted"
    /\ UNCHANGED <<clipboard, printed, lastRun, countVars>>

\* ------------------------------------------------------------ handle_selection
\* a handler with the except TesseractError clause alone
CaughtTesseractOnly(kind) == kind = "tesseract"

\* the except clauses of handle_selection: TesseractError, then Exception
Caught(kind) == kind \in {"tesseract", "other"}

\* the line the except clause prints (the exception text left out)
ErrorLine(kind) ==
    IF kind = "tesseract"
    THEN <<"OCR Error:", None>>
    ELSE <<"Error processing screenshot:", None>>

\* handle_selection returns into mouseReleaseEvent, which goes on to
\* self.close() and returns to the event loop.
Return ==
    /\ gpc' = "idle"
    /\ cur' = NoOverlay
    /\ rect' = None
    /\ img' = None
    /\ text' = None
    /\ IF ReleaseOrder[2] = "close"
       THEN /\ ov' = [ov EXCEPT ![cur].visible = FALSE]
            /\ closeCount' = [closeCount EXCEPT ![cur] = @ + 1]
            /\ loop' = AfterClose(cur, loop)
       ELSE UNCHANGED <<ov, closeCount, loop>>
    /\ UNCHANGED <<kbdVars, lpc, appOverlay, nextId, emitCount, drags>>

\* An exception of the given kind inside the try block.  Caught, it is
\* printed and the slot returns; let out, it leaves mouseReleaseEvent
\* before close() and PyQt aborts or goes on, as in MouseReleaseNoPress.
Raise(kind) ==
    /\ clipboard' = clipboard
    /\ IF Caught(kind)
       THEN /\ printed' = ErrorLine(kind)
            /\ lastRun' = [lastRun EXCEPT !.status = "failed"]
            /\ Return
       ELSE /\ printed' = printed
            /\ lastRun' = [lastRun EXCEPT !.status = "raised"]
            /\ UNCHANGED countVars
            /\ \/ /\ gpc' = "idle"
                  /\ cur' = NoOverlay
                  /\ rect' = None
                  /\ img' = None
                  /\ text' = None
                  /\ UNCHANGED <<kbdVars, lpc, ovVars, loop>>
               \/ /\ Gone
                  /\ loop' = "aborted"

\* grabWindow(0), copy(rect), save to PNG, Image.open
HandlerCapture ==
    /\ Alive
    /\ gpc = "grab"
    /\ \E i \in PixmapCopy(GrabWindow, rect) :
          IF ConvertRaises(i)
          THEN Raise("other")
          ELSE /\ img' = i
               /\ gpc' = "ocr"
               /\ lastRun' = [lastRun EXCEPT !.shownAtGrab = ov[cur].visible]
               /\ UNCHANGED <<kbdVars, lpc, ovVars, cur, rect, text, clipboard,
                              printed, countVars, loop>>

\* the screen grab itself fails (no primary screen)
HandlerCaptureFails ==
    /\ Alive
    /\ gpc = "grab"
    /\ Raise("other")

\* pytesseract.image_to_string returns t
HandlerOcr(t) ==
    /\ Alive
    /\ gpc = "ocr"
    /\ text' = t
    /\ gpc' = "copy"
    /\ UNCHANGED <<kbdVars, lpc, ovVars, cur, rect, img, clipboard, printed,
                   lastRun, countVars, loop>>

\* pytesseract raises TesseractError, or another exception
\* (TesseractNotFoundError is not a TesseractError)
HandlerOcrFails(kind) ==
    /\ Alive
    /\ gpc = "ocr"
    /\ Raise(kind)

\* pyperclip.copy(text.strip()), the print of text.strip(), and the return
HandlerCopy ==
    /\ Alive
    /\ gpc = "copy"
    /\ clipboard' = Strip(text)
    /\ printed' = <<"Extracted text copied to clipboard:", Strip(text)>>
    /\ lastRun' = [lastRun EXCEPT !.status = "ok",
                                  !.padded = text # <<>> /\ IsSpace(text[Len(text)])]
    /\ Return

\* pyperclip.copy raises: nothing reached the clipboard
HandlerCopyFails ==
    /\ Alive
    /\ gpc = "copy"
    /\ Raise("other")

\* app.exec_() takes the Quit event and returns; sys.exit ends the process
ProcessQuit ==
    /\ loop = "quitting"
    /\ gpc = "idle"
    /\ Gone
    /\ loop' = "exited"
    /\ UNCHANGED <<clipboard, printed, lastRun, countVars>>

Next ==
    \/ \E k \in PhysKeys : OnPress(k)
    \/ \E k \in PhysKeys : OnRelease(k)
    \/ StartOverlayCheck
    \/ StartOverlayCreate
    \/ StartOverlayAbort
    \/ StartOverlayShow
    \/ \E o \in Ids, b \in Buttons, p \in Points : MousePress(o, b, p)
    \/ \E o \in Ids, p \in Points : MouseMove(o, p)
    \/ \E o \in Ids, b \in Buttons, p \in Points : MouseRelease(o, b, p)
    \/ \E o \in Ids, b \in Buttons, p \in Points : MouseReleaseOther(o, b, p)
    \/ \E o \in Ids, b \in Buttons, p \in Points : MouseReleaseNoPress(o, b, p)
    \/ HandlerCapture
    \/ HandlerCaptureFails
    \/ \E t \in Texts : HandlerOcr(t)
    \/ \E kind \in {"tesseract", "other"} : HandlerOcrFails(kind)
    \/ HandlerCopy
    \/ HandlerCopyFails
    \/ ProcessQuit

Spec == Init /\ [][Next]_vars

\* ------------------------------------------------------------ claims
Handling == gpc \in {"grab", "ocr", "copy"}

\* C1: the rectangle mouseReleaseEvent passes to selectionComplete, built
\* from the point of a left press and the point of the left release, has a
\* width and a height that are not negative.
C1_RectNonNegative ==
    rect # None => RectWidth(rect) >= 0 /\ RectHeight(rect) >= 0

\* a drag from the bottom right to the top left has been emitted
C1_ReversedDragEmitted ==
    /\ rect # None
    /\ ov[cur].start_point[1] > ov[cur].end_point[1] + 1
    /\ ov[cur].start_point[2] > ov[cur].end_point[2] + 1

\* C2: an overlay emits selectionComplete and is closed once per completed
\* drag (a left press followed by a left release), at most once in all, and
\* by nothing else: emissions equal completed drags, a close follows each
\* emission once the handler is through, and a shown overlay was not closed.
C2_ClosesOncePerDrag ==
    \A o \in Ids :
        /\ emitCount[o] = drags[o]
        /\ emitCount[o] <= 1
        /\ closeCount[o] <= emitCount[o]
        /\ (gpc = "idle" => closeCount[o] = emitCount[o])
        /\ (o \in DOMAIN ov /\ ov[o].visible => closeCount[o] = 0)

\* an overlay has been closed by its one completed drag
C2_DragClosed ==
    \E o \in Ids : closeCount[o] = 1 /\ drags[o] = 1 /\ emitCount[o] = 1

\* c is t without the whitespace at its two ends
IsTrimOf(c, t) ==
    \E i, j \in 0..Len(t) :
        /\ i + Len(c) + j = Len(t)
        /\ \A k \in 1..Len(c) : c[k] = t[i + k]
        /\ \A k \in 1..i : IsSpace(t[k])
        /\ \A k \in (Len(t) - j + 1)..Len(t) : IsSpace(t[k])
        /\ (c # <<>> => ~IsSpace(c[1]) /\ ~IsSpace(c[Len(c)]))

\* C3: when handle_selection has run with an OCR call that returned t, the
\* clipboard holds t without its leading and trailing whitespace, and the
\* line echoed to standard output carries that same string.
C3_ClipboardIsTrimmedText ==
    [][(gpc = "copy" /\ lastRun'.status = "ok") =>
         /\ IsTrimOf(clipboard', text)
         /\ printed' = <<"Extracted text copied to clipboard:", clipboard'>>]_vars

\* a run whose OCR text ended in whitespace has written the clipboard
C3_TrailingSpaceTrimmed ==
    /\ lastRun.status = "ok"
    /\ lastRun.padded
    /\ clipboard # <<>>

\* C4 (as claimed): the cropped image has the width and the height of the
\* rectangle the overlay emitted.
C4_CropHasRectSize ==
    img # None => img[1] = RectWidth(rect) /\ img[2] = RectHeight(rect)

\* C5: a failing step of handle_selection is caught and printed, nothing
\* leaves the handler, the clipboard is as it was before the run, and the
\* overlay that emitted the selection is closed when the handler returns.
C5_FailureContained ==
    /\ lastRun.status # "raised"
    /\ lastRun.status = "failed" =>
          /\ printed # None
          /\ printed[1] \in {"OCR Error:", "Error processing screenshot:"}
          /\ clipboard = lastRun.before
          /\ (lastRun.id \in DOMAIN ov => ~ov[lastRun.id].visible)
          /\ closeCount[lastRun.id] = 1

\* a run failed and its overlay has been closed
C5_FailedRunClosed ==
    /\ lastRun.status = "failed"
    /\ Alive
    /\ ~ov[lastRun.id].visible
    /\ closeCount[lastRun.id] = 1

\* C6 (as claimed): the listener thread is never inside start_overlay,
\* where MainApp.overlay is read and written and the widget is created
\* and shown.
C6_ListenerNeverTouchesOverlay == lpc \notin {"check", "create", "show"}

\* C7 (as claimed): a key press starts start_overlay exactly when it makes
\* shift, alt and s all held down.
C7_ActivatesExactlyOnCombo ==
    [][(lpc = "idle" /\ lpc' = "check")
         <=> (Combo \subseteq held' /\ ~(Combo \subseteq held))]_vars

\* C8: at most one overlay is shown at any time; start_overlay called while
\* the current overlay is shown returns and leaves MainApp.overlay and the
\* overlays as they are; an overlay is created only when there is none or
\* the current one is not shown.
C8_SingleOverlay ==
    /\ [](Cardinality({o \in DOMAIN ov : ov[o].visible}) <= 1)
    /\ [][(lpc = "check" /\ lpc' # "check"
            /\ appOverlay # NoOverlay /\ ov[appOverlay].visible)
           => (lpc' = "idle" /\ UNCHANGED ovVars)]_vars
    /\ [][nextId' # nextId
           => (appOverlay = NoOverlay \/ ~ov[appOverlay].visible)]_vars

\* start_overlay has been called while the current overlay is shown
C8_ActivatedWhileShown ==
    lpc = "check" /\ appOverlay # NoOverlay /\ ov[appOverlay].visible

\* C9: while handle_selection runs the rubber band is already hidden and
\* the overlay is emitted once, still shown (also at the screen grab) and
\* not yet closed; it is closed when the handler is through; a hotkey
\* activation that arrives meanwhile creates and shows no overlay.
C9_HideEmitThenClose ==
    /\ Handling =>
          /\ ov[cur].visible
          /\ ~ov[cur].rubberVisible
          /\ emitCount[cur] = 1
          /\ closeCount[cur] = 0
          /\ appOverlay = cur
          /\ lpc \notin {"create", "show"}
    /\ gpc \in {"ocr", "copy"} => lastRun.shownAtGrab
    /\ (gpc = "idle" /\ lastRun.status \in {"ok", "failed"})
          => closeCount[lastRun.id] = 1

\* the hotkey was activated while the handler was past the screen grab
C9_ActivatedWhileHandling == gpc = "ocr" /\ lpc = "check"

\* C10 (as claimed): once an overlay has closed the event loop keeps
\* running, ready for the next activation.
C10_LoopKeepsRunning ==
    (\E o \in Ids : closeCount[o] > 0) => loop = "running"

====
